---- MODULE Spec2Model ----
(***************************************************************************)
(* Model of the crossword back end: Backend/app.py (the HTTP handler),     *)
(* Backend/scraper.py (feed transport, image and clue extraction) and      *)
(* Backend/grid_extractor.py (grid reconstruction and numbering).          *)
(*                                                                         *)
(* Python values are modelled as follows: None is the string "None", a     *)
(* str is a sequence of characters (or of lexical tokens where only the    *)
(* token structure is inspected), a dict is a record or a function, a list *)
(* is a sequence, None is the sequence <<"None">>, and a call that may     *)
(* raise returns a record whose exc field names the exception ("" when it  *)
(* returns normally).                                                      *)
(***************************************************************************)
EXTENDS Integers, Sequences, FiniteSets, TLC

VARIABLES
    pc,            \* position of the running operation
    date_str,      \* app.py: request.args.get('date')
    remote_image,  \* environment: what the image URL serves
    requested,     \* <<rows, cols>> the caller asks the grid stage for
    image_url,     \* argument of process_grid_image / result of the image scan
    grid_matrix,   \* grid_extractor.py: grid_matrix
    grid_numbers,  \* app.py: grid_numbers (generate_numbering's dict)
    payload_text,  \* scraper.py: payload_text
    trace,         \* what the scrape did: fallback call, payloads parsed
    html_payload,  \* scraper.py: html_payload
    title,         \* scraper.py: title
    scraped_data,  \* app.py: scraped_data
    response,      \* app.py: the (body, status) the handler returns
    imgs,          \* the <img> elements of the parsed document
    lines,         \* scraper.py: lines
    current_section, \* scraper.py: current_section
    clues          \* scraper.py: clues

vars == <<pc, date_str, remote_image, requested, image_url, grid_matrix,
          grid_numbers, payload_text, trace, html_payload, title,
          scraped_data, response, imgs, lines, current_section, clues>>

None == <<"None">>

(***************************************************************************)
(* Bounds of the model.                                                    *)
(***************************************************************************)
MaxRows == 3
MaxCols == 3

Min(a, b) == IF a <= b THEN a ELSE b

(***************************************************************************)
(* grid_extractor.py: generate_numbering                                   *)
(***************************************************************************)
\* f"{r},{c}": the row, a comma, the column.
NumberKey(r, c) == <<r, ",", c>>

is_across(M, r, c) == c = 0 \/ M[r + 1][c] = 0
is_down(M, r, c) == r = 0 \/ M[r][c + 1] = 0

NextCounterTwice(across, down, counter) ==
    IF across /\ down THEN counter + 2 ELSE counter + 1
NextCounter(across, down, counter) == counter + 1

\* The body of the inner loop: one cell, given the numbering so far.
NumberCell(M, r, c, st) ==
    IF M[r + 1][c + 1] = 0 THEN st
    ELSE IF is_across(M, r, c) \/ is_down(M, r, c)
         THEN [nums |-> st.nums @@ (NumberKey(r, c) :> st.counter),
               counter |-> NextCounter(is_across(M, r, c), is_down(M, r, c),
                                       st.counter)]
         ELSE st

\* The two loops.  Each step's result is inspected before the next step is
\* taken, so that the cells are evaluated in scan order, one at a time.
generate_numbering(M) ==
    LET rows == Len(M)
        cols == Len(M[1])
        RECURSIVE row_loop(_, _, _)
        row_loop(r, c, st) ==
            IF c = cols THEN st
            ELSE LET nxt == NumberCell(M, r, c, st)
                 IN IF nxt.counter >= st.counter
                    THEN row_loop(r, c + 1, nxt)
                    ELSE nxt
        RECURSIVE grid_loop(_, _)
        grid_loop(r, st) ==
            IF r = rows THEN st
            ELSE LET nxt == row_loop(r, 0, st)
                 IN IF nxt.counter >= st.counter
                    THEN grid_loop(r + 1, nxt)
                    ELSE nxt
    IN grid_loop(0, [nums |-> <<>>, counter |-> 1]).nums

Matrices == UNION {[1..r -> [1..c -> {0, 1}]] : r \in 1..MaxRows, c \in 1..MaxCols}

InitNum ==
    /\ pc = "num_start"
    /\ grid_matrix \in Matrices
    /\ date_str = None /\ remote_image = None /\ requested = None
    /\ image_url = None /\ grid_numbers = None
    /\ payload_text = None /\ trace = None /\ html_payload = None
    /\ title = None /\ scraped_data = None /\ response = None
    /\ imgs = None /\ lines = None /\ current_section = None /\ clues = None

Number ==
    /\ pc = "num_start"
    /\ grid_numbers' = generate_numbering(grid_matrix)
    /\ pc' = "num_done"
    /\ UNCHANGED <<date_str, remote_image, requested, image_url, grid_matrix,
                   payload_text, trace, html_payload, title, scraped_data,
                   response, imgs, lines, current_section, clues>>

NextNum == Number
SpecNum == InitNum /\ [][NextNum]_vars

\* The cells the claim says are numbered, in row-major order.
StartsEntry(M, r, c) ==
    /\ M[r + 1][c + 1] = 1
    /\ (c = 0 \/ M[r + 1][c] = 0 \/ r = 0 \/ M[r][c + 1] = 0)
StartCells(M) ==
    {rc \in (0..Len(M) - 1) \X (0..Len(M[1]) - 1) : StartsEntry(M, rc[1], rc[2])}
ScanBefore(M, a, b) == a[1] * Len(M[1]) + a[2] < b[1] * Len(M[1]) + b[2]

\* C1: generate_numbering numbers exactly the playable cells that begin an
\* across or a down run, with the numbers 1..k, each once, increasing in
\* row-major scan order.
C1_Numbering ==
    pc = "num_done" =>
        LET M == grid_matrix
            S == StartCells(M)
        IN /\ DOMAIN grid_numbers = {NumberKey(rc[1], rc[2]) : rc \in S}
           /\ {grid_numbers[k] : k \in DOMAIN grid_numbers} = 1..Cardinality(S)
           /\ \A a, b \in S :
                  ScanBefore(M, a, b) =>
                      grid_numbers[NumberKey(a[1], a[2])]
                          < grid_numbers[NumberKey(b[1], b[2])]

\* A numbered grid holding a cell that starts both an across and a down run
\* and a later numbered cell.
C1_Witness ==
    /\ pc = "num_done"
    /\ Len(grid_matrix) >= 2 /\ Len(grid_matrix[1]) >= 2
    /\ grid_matrix[1][1] = 1 /\ grid_matrix[1][2] = 1 /\ grid_matrix[2][1] = 1
    /\ grid_matrix[2][2] = 0
    /\ grid_numbers[NumberKey(0, 0)] = 1
    /\ grid_numbers[NumberKey(1, 0)] = 3

(***************************************************************************)
(* grid_extractor.py: get_default_grid, process_grid_image                 *)
(***************************************************************************)
DefaultSize == 15
TargetSize == 750
GridRows == 15
GridCols == 15
CellDivisor == 15
DarkThreshold == 60
AreaFloor == 10000
TopContours == 5
MaxContours == 6

get_default_grid == [r \in 1..DefaultSize |-> [c \in 1..DefaultSize |-> 1]]

\* A contour as cv2.boundingRect and cv2.contourArea describe it.
ContourKinds ==
    { [w |-> 200, h |-> 200, area |-> 38000],   \* near-square, large
      [w |-> 400, h |-> 100, area |-> 39000],   \* large, not square
      [w |-> 60,  h |-> 60,  area |-> 3000] }   \* square, too small

RECURSIVE SeqsUpTo(_, _)
SeqsUpTo(S, n) ==
    IF n = 0 THEN {<<>>}
    ELSE LET shorter == SeqsUpTo(S, n - 1)
         IN shorter \cup {Append(q, x) : q \in {t \in shorter : Len(t) = n - 1}, x \in S}

\* cell_size = target_size // 15, and the centre of cell i along one axis.
cell_size == TargetSize \div CellDivisor
Center(i) == i * cell_size + (cell_size \div 2)

\* What np.mean of the 10x10 sample box around pixel (x, y) of the resized
\* crop gives; the box lies inside one 50-pixel square of the canvas.
Views == {"white", "black", "checker", "dim59", "dim60"}
AvgVal(view, x, y) ==
    CASE view = "white" -> 255
      [] view = "black" -> 0
      [] view = "checker" ->
             IF ((x \div cell_size) + (y \div cell_size)) % 2 = 0 THEN 0 ELSE 255
      [] view = "dim59" -> 59
      [] view = "dim60" -> 60

\* What requests.get(image_url) and cv2.imdecode find at the image URL.
RemoteImages ==
    [kind : {"http_error", "undecodable"}, contours : {<<>>},
     contour_view : {"white"}, center_view : {"white"}]
    \cup [kind : {"image"}, contours : SeqsUpTo(ContourKinds, MaxContours),
          contour_view : Views, center_view : Views]

\* sorted(contours, key=cv2.contourArea, reverse=True): a stable insertion
\* sort, larger areas first.
RECURSIVE InsertByArea(_, _)
InsertByArea(sorted, cnt) ==
    IF sorted = <<>> THEN <<cnt>>
    ELSE IF Head(sorted).area >= cnt.area
         THEN <<Head(sorted)>> \o InsertByArea(Tail(sorted), cnt)
         ELSE <<cnt>> \o sorted
RECURSIVE SortByArea(_)
SortByArea(cs) ==
    IF cs = <<>> THEN <<>>
    ELSE InsertByArea(SortByArea(SubSeq(cs, 1, Len(cs) - 1)), cs[Len(cs)])

\* 0.85 < float(w) / h < 1.15 and area > 10000, in integers.
Qualifies(cnt) ==
    /\ 85 * cnt.h < 100 * cnt.w
    /\ 100 * cnt.w < 115 * cnt.h
    /\ cnt.area > AreaFloor

\* The loop over contours[:5]: the position of the first qualifying
\* contour, 0 when best_cnt stays None.
BestContour(cs) ==
    LET top == SubSeq(cs, 1, Min(Len(cs), TopContours))
        hits == {i \in 1..Len(top) : Qualifies(top[i])}
    IN IF hits = {} THEN 0
       ELSE CHOOSE i \in hits : \A j \in hits : i <= j

\* The view of the crop the sampler reads: the contour's bounding box when a
\* contour qualified, the centre square otherwise.
CropView(img) ==
    IF BestContour(SortByArea(img.contours)) # 0
    THEN img.contour_view ELSE img.center_view

\* cell_value of one cell: 0 when the sample is darker than the threshold.
CellValue(avg_val) == IF avg_val < DarkThreshold THEN 0 ELSE 1

SampleGrid(view) ==
    [r \in 1..GridRows |->
        [c \in 1..GridCols |-> CellValue(AvgVal(view, Center(c - 1), Center(r - 1)))]]

\* process_grid_image(image_url): the matrix it returns.  `remote` is what
\* the URL serves; any exception in the body gives the default grid.
process_grid_image(url, remote) ==
    IF url = None \/ url = <<>> THEN get_default_grid
    ELSE IF remote.kind # "image" THEN get_default_grid
    ELSE SampleGrid(CropView(remote))

ImageUrls == {None, <<>>, <<"grid">>}
Dimensions == {<<15, 15>>, <<21, 21>>}

InitGrid ==
    /\ pc = "grid_start"
    /\ image_url \in ImageUrls
    /\ remote_image \in RemoteImages
    /\ requested \in Dimensions
    /\ date_str = None /\ grid_matrix = None /\ grid_numbers = None
    /\ payload_text = None /\ trace = None /\ html_payload = None
    /\ title = None /\ scraped_data = None /\ response = None
    /\ imgs = None /\ lines = None /\ current_section = None /\ clues = None

\* The function applied as it is declared, to the image URL alone; the
\* requested dimensions are what its caller wants back.
ProcessGrid ==
    /\ pc = "grid_start"
    /\ grid_matrix' = process_grid_image(image_url, remote_image)
    /\ pc' = "grid_done"
    /\ UNCHANGED <<date_str, remote_image, requested, image_url, grid_numbers,
                   payload_text, trace, html_payload, title, scraped_data,
                   response, imgs, lines, current_section, clues>>

NextGrid == ProcessGrid
SpecGrid == InitGrid /\ [][NextGrid]_vars

HasShape(M, rows, cols) ==
    /\ Len(M) = rows
    /\ \A r \in 1..Len(M) : Len(M[r]) = cols /\ \A c \in 1..Len(M[r]) : M[r][c] \in {0, 1}

\* C2: for every requested (rows, cols) in {(15,15), (21,21)} and every
\* outcome of the image stage, process_grid_image returns a rows x cols
\* matrix of 0/1 entries.
C2_Rectangular ==
    pc = "grid_done" => HasShape(grid_matrix, requested[1], requested[2])

(***************************************************************************)
(* scraper.py: text payloads, decode_content, fetch_with_curl              *)
(***************************************************************************)
MaxTextLen == 2

\* A payload is a sequence of lexical tokens: "ws" is white space, "<?xml",
\* "<rss" and "<a" are the openings of markup ("<a" any other tag), "g" is
\* anything that is not markup (compressed bytes, a block page in plain
\* text).  "<html" plays the part of "<rss" in every test of the code.
Tokens == {"ws", "<?xml", "<rss", "<a", "g"}
Texts == SeqsUpTo(Tokens, MaxTextLen)
\* The value standing for "evaluating this raises".
Raises == <<"raise">>

RECURSIVE LStrip(_)
LStrip(t) == IF t # <<>> /\ Head(t) = "ws" THEN LStrip(Tail(t)) ELSE t
RECURSIVE RStrip(_)
RStrip(t) ==
    IF t # <<>> /\ t[Len(t)] = "ws" THEN RStrip(SubSeq(t, 1, Len(t) - 1)) ELSE t
\* str.strip()
Strip(t) == RStrip(LStrip(t))

Contains(t, tok) == \E i \in 1..Len(t) : t[i] = tok

\* text.strip().startswith("<")
StartsWithLt(t) == Strip(t) # <<>> /\ Head(Strip(t)) \in {"<?xml", "<rss", "<a"}

\* decode_content's test of the standard decode:
\* text.strip().startswith("<?xml") or "<rss" in text or "<html" in text
LooksDecoded(t) ==
    \/ (Strip(t) # <<>> /\ Head(Strip(t)) = "<?xml")
    \/ Contains(t, "<rss")

\* `not text or not text.strip().startswith("<")`
NotMarkup(t) == t = <<>> \/ ~StartsWithLt(t)
\* `not text`
Empty(t) == t = <<>>

\* Line 147: the test that sends the feed fetch to the utility.
NeedsFallbackIfEmpty(t) == Empty(t)
NeedsFallback(t) == NotMarkup(t)

\* Line 151: the test that rejects the final payload.
InvalidIfEmpty(t) == Empty(t)
InvalidPayload(t) == NotMarkup(t)

\* The system as fetch_with_curl finds it: whether shutil.which("curl")
\* finds the utility, and what subprocess.run gives (its stdout, or Raises).
CurlEnvs == [which : BOOLEAN, run : Texts \cup {Raises}]

Returned(t) == [exc |-> "", text |-> t]
Raised(e) == [exc |-> e, text |-> <<>>]

\* fetch_with_curl(url): the text it returns or the exception it raises.
fetch_with_curl(url, env) ==
    IF ~env.which THEN Raised("Exception")
    ELSE IF env.run = Raises THEN Returned(<<>>)
    ELSE Returned(env.run)

\* What requests.get returned: response.text (or Raises), whether the
\* content begins with the gzip magic number and what gzip.decompress and
\* decode give, the Content-Encoding header, whether the brotli package is
\* installed and what brotli.decompress and decode give, and response.url.
Responses(url) ==
    [status : {200}, text : Texts \cup {Raises}, gzip_magic : {FALSE},
     gunzip : {<<>>}, content_encoding : {"identity"}, brotli_lib : {FALSE},
     unbrotli : {<<>>}, url : {url}]
    \cup [status : {200}, text : {<<"g">>, <<"g", "<rss">>}, gzip_magic : {TRUE},
          gunzip : Texts \cup {Raises}, content_encoding : {"gzip"},
          brotli_lib : {FALSE}, unbrotli : {<<>>}, url : {url}]
    \cup [status : {200}, text : {<<"g">>}, gzip_magic : {FALSE}, gunzip : {<<>>},
          content_encoding : {"br"}, brotli_lib : {TRUE},
          unbrotli : Texts \cup {Raises}, url : {url}]
    \cup [status : {200}, text : {<<"g">>}, gzip_magic : {FALSE}, gunzip : {<<>>},
          content_encoding : {"br"}, brotli_lib : {FALSE}, unbrotli : {<<>>},
          url : {url, "redirected"}]
    \cup [status : {404, 503}, text : {<<"<a">>, <<"g">>}, gzip_magic : {FALSE},
          gunzip : {<<>>}, content_encoding : {"identity"}, brotli_lib : {FALSE},
          unbrotli : {<<>>}, url : {url}]

\* decode_content(response)
decode_content(res, env) ==
    IF res.text # Raises /\ LooksDecoded(res.text)
    THEN Returned(res.text)
    ELSE IF res.gzip_magic
    THEN IF res.gunzip = Raises THEN Raised("OSError")
         ELSE Returned(res.gunzip)
    ELSE IF res.content_encoding = "br"
    THEN IF res.brotli_lib
         THEN IF res.unbrotli = Raises THEN Raised("brotli.error")
              ELSE Returned(res.unbrotli)
         ELSE fetch_with_curl(res.url, env)
    ELSE IF res.text = Raises THEN Raised("UnicodeError")
         ELSE Returned(res.text)

(***************************************************************************)
(* scraper.py: extract_data_from_html, the image scan                      *)
(***************************************************************************)
MaxImgs == 2
WidthFloor == 200
GridScore == 50
WidthScore == 20

\* A source path is a sequence of words; lower() maps a word to lower case
\* and `'grid' in src` asks for the word.
LowerWord(w) ==
    CASE w = "GRID" -> "grid"
      [] w = "Crossword" -> "crossword"
      [] w = "ICON" -> "icon"
      [] w = "Pixel" -> "pixel"
      [] OTHER -> w
Lower(src) == [i \in 1..Len(src) |-> LowerWord(src[i])]

Digits == {"0", "1", "2", "3", "4", "5", "6", "7", "8", "9"}
DigitValue(ch) ==
    CASE ch = "0" -> 0 [] ch = "1" -> 1 [] ch = "2" -> 2 [] ch = "3" -> 3
      [] ch = "4" -> 4 [] ch = "5" -> 5 [] ch = "6" -> 6 [] ch = "7" -> 7
      [] ch = "8" -> 8 [] ch = "9" -> 9

RECURSIVE DecimalValue(_)
DecimalValue(ds) ==
    IF ds = <<>> THEN 0
    ELSE 10 * DecimalValue(SubSeq(ds, 1, Len(ds) - 1)) + DigitValue(ds[Len(ds)])

\* int(s) of a str: the value of a run of digits, ValueError otherwise.
IsDecimal(chars) == chars # <<>> /\ \A i \in 1..Len(chars) : chars[i] \in Digits

\* img.get('src') or img.get('data-src')
ImgSource(img) ==
    IF img.src # None /\ img.src # <<>> THEN img.src ELSE img.data_src

\* `not src or 'pixel' in src or 'icon' in src`
Skipped(src) ==
    src = None \/ src = <<>> \/ Contains(src, "pixel") \/ Contains(src, "icon")

\* int(img.get('width') or 0) raises ValueError
WidthRaises(img) ==
    img.width # None /\ img.width # <<>> /\ ~IsDecimal(img.width)
Width(img) ==
    IF img.width = None \/ img.width = <<>> THEN 0 ELSE DecimalValue(img.width)

Score(img) ==
    (IF Contains(Lower(ImgSource(img)), "grid")
        \/ Contains(Lower(ImgSource(img)), "crossword")
     THEN GridScore ELSE 0)
    + (IF Width(img) > WidthFloor THEN WidthScore ELSE 0)

\* candidates.sort(key=lambda x: x[0], reverse=True): stable, higher scores
\* first, equal scores in their order of arrival.
RECURSIVE InsertByScore(_, _)
InsertByScore(sorted, cand) ==
    IF sorted = <<>> THEN <<cand>>
    ELSE IF Head(sorted)[1] >= cand[1]
         THEN <<Head(sorted)>> \o InsertByScore(Tail(sorted), cand)
         ELSE <<cand>> \o sorted
RECURSIVE SortByScore(_)
SortByScore(cs) ==
    IF cs = <<>> THEN <<>>
    ELSE InsertByScore(SortByScore(SubSeq(cs, 1, Len(cs) - 1)), cs[Len(cs)])

\* The loop over soup.find_all('img'): the candidates (score, src) in
\* document order, up to the first element whose width does not parse.
RECURSIVE Candidates(_)
Candidates(elems) ==
    IF elems = <<>> THEN [exc |-> "", list |-> <<>>]
    ELSE LET img == Head(elems)
             rest == Candidates(Tail(elems))
         IN IF Skipped(ImgSource(img)) THEN rest
            ELSE IF WidthRaises(img) THEN [exc |-> "ValueError", list |-> <<>>]
            ELSE IF rest.exc # "" THEN rest
            ELSE [exc |-> "", list |-> <<<<Score(img), ImgSource(img)>>>> \o rest.list]

\* Section 1 of extract_data_from_html: image_url, or the exception raised.
SelectImage(elems) ==
    LET cands == Candidates(elems)
    IN IF cands.exc # "" THEN [exc |-> cands.exc, image_url |-> None]
       ELSE IF cands.list = <<>> THEN [exc |-> "", image_url |-> None]
       ELSE [exc |-> "", image_url |-> SortByScore(cands.list)[1][2]]

Sources ==
    { None, <<>>, <<"img">>, <<"grid">>, <<"GRID", "a">>, <<"Crossword">>,
      <<"pixel">>, <<"icon", "grid">>, <<"Pixel">> }
Widths ==
    { None, <<"2", "0", "0">>, <<"2", "0", "1">>, <<"1", "0", "0", "%">> }
ImgElements == [src : Sources, data_src : {None, <<"grid", "lazy">>}, width : Widths]

InitImg ==
    /\ pc = "img_start"
    /\ imgs \in SeqsUpTo(ImgElements, MaxImgs)
    /\ date_str = None /\ remote_image = None /\ requested = None
    /\ image_url = None /\ grid_matrix = None /\ grid_numbers = None
    /\ payload_text = None /\ trace = None /\ html_payload = None
    /\ title = None /\ scraped_data = None /\ response = None
    /\ lines = None /\ current_section = None /\ clues = None

ScanImagesOk ==
    /\ pc = "img_start"
    /\ SelectImage(imgs).exc = ""
    /\ image_url' = SelectImage(imgs).image_url
    /\ pc' = "img_done"
    /\ UNCHANGED <<date_str, remote_image, requested, grid_matrix, grid_numbers,
                   payload_text, trace, html_payload, title, scraped_data,
                   response, imgs, lines, current_section, clues>>

ScanImagesRaises ==
    /\ pc = "img_start"
    /\ SelectImage(imgs).exc # ""
    /\ pc' = "img_raised"
    /\ UNCHANGED <<date_str, remote_image, requested, image_url, grid_matrix,
                   grid_numbers, payload_text, trace, html_payload, title,
                   scraped_data, response, imgs, lines, current_section, clues>>

NextImg == ScanImagesOk \/ ScanImagesRaises
SpecImg == InitImg /\ [][NextImg]_vars

\* The score the claim gives an element, from its source and declared width.
ClaimExcluded(img) ==
    LET src == ImgSource(img)
    IN src = None \/ src = <<>> \/ Contains(src, "pixel") \/ Contains(src, "icon")
ClaimScore(img) ==
    (IF \E i \in 1..Len(ImgSource(img)) :
            LowerWord(ImgSource(img)[i]) \in {"grid", "crossword"}
     THEN 50 ELSE 0)
    + (IF img.width # None /\ IsDecimal(img.width) /\ DecimalValue(img.width) > 200
       THEN 20 ELSE 0)
ClaimChoice(elems) ==
    LET ok == {i \in 1..Len(elems) : ~ClaimExcluded(elems[i])}
        best == {i \in ok : \A j \in ok : ClaimScore(elems[i]) >= ClaimScore(elems[j])}
    IN IF ok = {} THEN None
       ELSE ImgSource(elems[CHOOSE i \in best : \A j \in best : i <= j])

\* C7: for every sequence of image elements the scan ends with the source of
\* the first element of maximum score among the elements not excluded, and
\* with no URL exactly when every element is excluded or has no source.
C7_ImageChoice ==
    pc \in {"img_done", "img_raised"} =>
        /\ pc = "img_done"
        /\ image_url = ClaimChoice(imgs)

(***************************************************************************)
(* scraper.py: extract_data_from_html, the clue scan                       *)
(***************************************************************************)
MaxLines == 3
HeaderLimit == 20

\* A line is a sequence of characters; "NBSP" is the character U+00A0.
IsSpace(ch) == ch \in {" ", "\t", "NBSP"}
IsSep(ch) == ch \in {":", "NBSP", "\t"}
IsDigit(ch) == ch \in Digits
\* [AD] under re.IGNORECASE
IsAD(ch) == ch \in {"A", "D", "a", "d"}

RECURSIVE LStripChars(_)
LStripChars(t) == IF t # <<>> /\ IsSpace(Head(t)) THEN LStripChars(Tail(t)) ELSE t
RECURSIVE RStripChars(_)
RStripChars(t) ==
    IF t # <<>> /\ IsSpace(t[Len(t)])
    THEN RStripChars(SubSeq(t, 1, Len(t) - 1)) ELSE t
StripChars(t) == RStripChars(LStripChars(t))

LowerAlpha == << "a", "b", "c", "d", "e", "f", "g", "h", "i", "j", "k", "l", "m",
                 "n", "o", "p", "q", "r", "s", "t", "u", "v", "w", "x", "y", "z" >>
UpperAlpha == << "A", "B", "C", "D", "E", "F", "G", "H", "I", "J", "K", "L", "M",
                 "N", "O", "P", "Q", "R", "S", "T", "U", "V", "W", "X", "Y", "Z" >>
UpperChar(ch) ==
    IF \E i \in 1..Len(LowerAlpha) : LowerAlpha[i] = ch
    THEN UpperAlpha[CHOOSE i \in 1..Len(LowerAlpha) : LowerAlpha[i] = ch]
    ELSE ch
\* str.upper()
Upper(t) == [i \in 1..Len(t) |-> UpperChar(t[i])]

\* `word in line`
HasSubstring(line, word) ==
    \E i \in 1..(Len(line) - Len(word) + 1) :
        SubSeq(line, i, i + Len(word) - 1) = word

\* The length of the longest run of characters of a class starting at p.
RECURSIVE RunLength(_, _, _)
RunLength(line, p, kind) ==
    IF p > Len(line) THEN 0
    ELSE IF (kind = "space" /\ IsSpace(line[p]))
            \/ (kind = "digit" /\ IsDigit(line[p]))
            \/ (kind = "sep" /\ IsSep(line[p]))
         THEN 1 + RunLength(line, p + 1, kind)
         ELSE 0

\* (.+?)[: \t]+(.+)$ from position q: the clue is the shortest text
\* that a separator follows with something left after it; the separator
\* run is the longest that leaves the answer one character.
SepStarts(line, q) == {j \in (q + 1)..(Len(line) - 1) : IsSep(line[j])}
ClueEnd(line, q) == CHOOSE j \in SepStarts(line, q) : \A k \in SepStarts(line, q) : j <= k
SepLength(line, j) == Min(RunLength(line, j, "sep"), Len(line) - j)

\* ^\s*(\d+)([AD]?)\.?\s* : the ways to match the prefix, <<digits, letter,
\* dot, spaces>>, each count as the pattern allows it at that place.
Prefixes(line) ==
    LET n0 == RunLength(line, 1, "space")
    IN { pre \in (1..RunLength(line, n0 + 1, "digit")) \X {0, 1} \X {0, 1} \X (0..Len(line)) :
            LET p == n0 + pre[1] + 1
                pdot == p + pre[2]
                pws == pdot + pre[3]
            IN /\ pre[2] = 1 => (p <= Len(line) /\ IsAD(line[p]))
               /\ pre[3] = 1 => (pdot <= Len(line) /\ line[pdot] = ".")
               /\ pre[4] <= RunLength(line, pws, "space")
               /\ SepStarts(line, pws + pre[4]) # {} }

\* Greedy quantifiers: the regex engine tries the longer alternative first.
Prefers(a, b) ==
    \/ a[1] > b[1]
    \/ a[1] = b[1] /\ a[2] > b[2]
    \/ a[1] = b[1] /\ a[2] = b[2] /\ a[3] > b[3]
    \/ a[1] = b[1] /\ a[2] = b[2] /\ a[3] = b[3] /\ a[4] >= b[4]

\* line_pattern.match(line): whether it matches and match.groups().
Match(line) ==
    IF Prefixes(line) = {}
    THEN [ok |-> FALSE, num |-> <<>>, d_char |-> "", clue |-> <<>>, ans |-> <<>>]
    ELSE LET pre == CHOOSE a \in Prefixes(line) : \A b \in Prefixes(line) : Prefers(a, b)
             n0 == RunLength(line, 1, "space")
             p == n0 + pre[1] + 1
             q == p + pre[2] + pre[3] + pre[4]
             j == ClueEnd(line, q)
         IN [ok |-> TRUE,
             num |-> SubSeq(line, n0 + 1, n0 + pre[1]),
             d_char |-> IF pre[2] = 1 THEN line[p] ELSE "",
             clue |-> SubSeq(line, q, j - 1),
             ans |-> SubSeq(line, j + SepLength(line, j), Len(line))]

NoSection == ""
AcrossWord == <<"A", "c", "r", "o", "s", "s">>
DownWord == <<"D", "o", "w", "n">>

\* The two header tests, in the order of the code.
Section(line, section) ==
    LET s1 == IF HasSubstring(line, AcrossWord) /\ Len(line) < HeaderLimit
              THEN "across" ELSE section
    IN IF HasSubstring(line, DownWord) /\ Len(line) < HeaderLimit THEN "down" ELSE s1

\* direction = "across" if d_char == 'A' else "down" if d_char == 'D'
\*             else current_section
Direction(d_char, section) ==
    IF d_char = "A" THEN "across" ELSE IF d_char = "D" THEN "down" ELSE section

Entry(m) == [clue |-> StripChars(m.clue), answer |-> Upper(StripChars(m.ans))]

Store(cl, direction, num, entry) ==
    IF direction = "across"
    THEN [cl EXCEPT !.across = (num :> entry) @@ cl.across]
    ELSE [cl EXCEPT !.down = (num :> entry) @@ cl.down]

NoClues == [across |-> <<>>, down |-> <<>>]

\* One turn of `for line in lines`: the section and the clues after it.
ParseLine(raw, section, cl) ==
    LET line == StripChars(raw)
    IN IF line = <<>> THEN [section |-> section, clues |-> cl]
       ELSE LET sec == Section(line, section)
                m == Match(line)
            IN IF m.ok /\ Direction(m.d_char, sec) # NoSection
               THEN [section |-> sec,
                     clues |-> Store(cl, Direction(m.d_char, sec),
                                     DecimalValue(m.num), Entry(m))]
               ELSE [section |-> sec, clues |-> cl]

\* '12A. Capital of France: PARIS'
Line12A ==
    <<"1", "2", "A", ".", " ", "C", "a", "p", "i", "t", "a", "l", " ", "o",
      "f", " ", "F", "r", "a", "n", "c", "e", ":", " ", "P", "A", "R", "I",
      "S">>
\* '5d. Canine: dog'
Line5d ==
    <<"5", "d", ".", " ", "C", "a", "n", "i", "n", "e", ":", " ", "d", "o",
      "g">>
\* '3. Feline: CAT'
Line3 ==
    <<"3", ".", " ", "F", "e", "l", "i", "n", "e", ":", " ", "C", "A", "T">>
\* 'Across'
LineAcross ==
    <<"A", "c", "r", "o", "s", "s">>
\* 'Down'
LineDown ==
    <<"D", "o", "w", "n">>
\* '7 Down time: rest'
Line7 ==
    <<"7", " ", "D", "o", "w", "n", " ", "t", "i", "m", "e", ":", " ", "r",
      "e", "s", "t">>
\* '  '
LineBlank ==
    <<" ", " ">>
\* '1a:b'
Line1a ==
    <<"1", "a", ":", "b">>
\* '4D Bark\tWOOF'
Line4D ==
    <<"4", "D", " ", "B", "a", "r", "k", "\t", "W", "O", "O", "F">>
\* 'Clues for the Across entries: all'
LineProse ==
    <<"C", "l", "u", "e", "s", " ", "f", "o", "r", " ", "t", "h", "e", " ",
      "A", "c", "r", "o", "s", "s", " ", "e", "n", "t", "r", "i", "e", "s",
      ":", " ", "a", "l", "l">>
\* '12. Across the pond, a lift: ELEVATOR'
Line12Long ==
    <<"1", "2", ".", " ", "A", "c", "r", "o", "s", "s", " ", "t", "h", "e",
      " ", "p", "o", "n", "d", ",", " ", "a", " ", "l", "i", "f", "t", ":",
      " ", "E", "L", "E", "V", "A", "T", "O", "R">>
\* '9D x'
Line9D ==
    <<"9", "D", " ", "x">>

LineSet ==
    { Line12A, Line5d, Line3, LineAcross, LineDown, Line7, LineBlank, Line1a,
      Line4D, LineProse, Line12Long, Line9D }

InitClue ==
    /\ pc = "clue_scan"
    /\ lines \in SeqsUpTo(LineSet, MaxLines)
    /\ current_section = NoSection
    /\ clues = NoClues
    /\ date_str = None /\ remote_image = None /\ requested = None
    /\ image_url = None /\ grid_matrix = None /\ grid_numbers = None
    /\ payload_text = None /\ trace = None /\ html_payload = None
    /\ title = None /\ scraped_data = None /\ response = None /\ imgs = None

\* The loop body on the next line; `lines` holds the lines still to come.
ScanLine ==
    /\ pc = "clue_scan"
    /\ lines # <<>>
    /\ current_section' = ParseLine(Head(lines), current_section, clues).section
    /\ clues' = ParseLine(Head(lines), current_section, clues).clues
    /\ lines' = Tail(lines)
    /\ UNCHANGED <<pc, date_str, remote_image, requested, image_url, grid_matrix,
                   grid_numbers, payload_text, trace, html_payload, title,
                   scraped_data, response, imgs>>

ScanEnd ==
    /\ pc = "clue_scan"
    /\ lines = <<>>
    /\ pc' = "clue_done"
    /\ UNCHANGED <<date_str, remote_image, requested, image_url, grid_matrix,
                   grid_numbers, payload_text, trace, html_payload, title,
                   scraped_data, response, imgs, lines, current_section, clues>>

NextClue == ScanLine \/ ScanEnd
SpecClue == InitClue /\ [][NextClue]_vars

\* The direction the claim gives a matching line: its direction letter when
\* it has one, else the section of the most recent short header line.
ClaimDirection(m, section) ==
    IF m.d_char \in {"A", "a"} THEN "across"
    ELSE IF m.d_char \in {"D", "d"} THEN "down"
    ELSE section

CapitalOfFrance ==
    [clue |-> <<"C", "a", "p", "i", "t", "a", "l", " ", "o", "f", " ",
                "F", "r", "a", "n", "c", "e">>,
     answer |-> <<"P", "A", "R", "I", "S">>]

\* C9: a line matching the clue pattern is stored under the direction of its
\* explicit direction letter when it has one, whatever the section; else
\* under the current section; and is discarded when it has neither.  The
\* line "12A. Capital of France: PARIS" gives across[12] in any section.
C9_Direction ==
    [][(pc = "clue_scan" /\ lines # <<>> /\ Match(StripChars(Head(lines))).ok) =>
          LET line == StripChars(Head(lines))
              m == Match(line)
              dir == ClaimDirection(m, Section(line, current_section))
          IN /\ dir = NoSection => clues' = clues
             /\ dir = "across" =>
                    /\ DecimalValue(m.num) \in DOMAIN clues'.across
                    /\ clues'.across[DecimalValue(m.num)] = Entry(m)
                    /\ clues'.down = clues.down
             /\ dir = "down" =>
                    /\ DecimalValue(m.num) \in DOMAIN clues'.down
                    /\ clues'.down[DecimalValue(m.num)] = Entry(m)
                    /\ clues'.across = clues.across
             /\ Head(lines) = Line12A =>
                    /\ 12 \in DOMAIN clues'.across
                    /\ clues'.across[12] = CapitalOfFrance]_vars

(***************************************************************************)
(* scraper.py: get_latest_puzzle, step by step                             *)
(***************************************************************************)
rss_url == "https://nyxcrossword.com/feed"
post_url == "item.link"

\* What the scrape has done so far in this request: the call of line 148
\* (the fallback) when it was made, with what the utility found; the
\* payloads handed to the feed parser and to extract_data_from_html.
NoTrace == [fallback |-> <<>>, parsed |-> <<>>, extracted |-> <<>>]

\* The dict a scraper returns: the keys it holds and their values.
ErrorResult(msg) ==
    [keys |-> {"error"}, error |-> msg, title |-> None, image_url |-> None,
     clues |-> NoClues, rows |-> 0, cols |-> 0]
PuzzleResult(t, url, cl) ==
    [keys |-> {"title", "image_url", "clues"}, error |-> "", title |-> t,
     image_url |-> url, clues |-> cl, rows |-> 0, cols |-> 0]

\* Texts a post page or a feed item's body may hold.
PageTexts == {<<>>, <<"g">>, <<"<a">>, <<"ws", "<a">>}
PageResponses ==
    { res \in Responses(post_url) :
        /\ res.text \in PageTexts \cup {Raises, <<"g", "<rss">>}
        /\ res.gunzip \in PageTexts \cup {Raises}
        /\ res.unbrotli \in PageTexts \cup {Raises} }
PageCurlEnvs == [which : BOOLEAN, run : PageTexts \cup {Raises}]

Titles == {<<"NYT", "Crossword", "Sunday">>, <<"NYT", "Crossword", "Monday">>}

\* What BeautifulSoup finds in the feed: whether there is an <item>, its
\* <title> text, the text of its content:encoded element and of its
\* description (None when the element is absent).
FeedDocs ==
    [item : {FALSE}, title : {None}, content : {None}, description : {None}]
    \cup [item : {TRUE}, title : Titles \cup {None},
          content : {None, <<>>, <<"<a">>}, description : {None, <<"g">>}]

GridImg == [src |-> <<"grid">>, data_src |-> None, width |-> <<"2", "0", "1">>]
IconImg == [src |-> <<"icon", "grid">>, data_src |-> None, width |-> None]
PercentImg == [src |-> <<"Crossword">>, data_src |-> None,
               width |-> <<"1", "0", "0", "%">>]

\* What BeautifulSoup finds in an HTML payload: its <img> elements and the
\* lines of its text.
HtmlDocs ==
    [imgs : {<<>>, <<IconImg>>, <<IconImg, GridImg>>, <<PercentImg>>},
     lines : {<<>>, <<LineAcross, Line3, Line12A>>}]

\* requests.get(rss_url) raises: payload_text stays "".
FetchFeedFails ==
    /\ pc = "feed_fetch"
    /\ payload_text' = <<>>
    /\ pc' = "feed_fallback"
    /\ UNCHANGED <<date_str, remote_image, requested, image_url, grid_matrix,
                   grid_numbers, trace, html_payload, title, scraped_data,
                   response, imgs, lines, current_section, clues>>

\* Lines 137-144 with a response: decode_content on status 200, and the
\* inner `except Exception` swallowing what decode_content raises.
FetchFeed ==
    /\ pc = "feed_fetch"
    /\ \E res \in Responses(rss_url), env \in CurlEnvs :
          LET d == IF res.status = 200 THEN decode_content(res, env)
                   ELSE Returned(<<>>)
          IN payload_text' = IF d.exc # "" THEN <<>> ELSE d.text
    /\ pc' = "feed_fallback"
    /\ UNCHANGED <<date_str, remote_image, requested, image_url, grid_matrix,
                   grid_numbers, trace, html_payload, title, scraped_data,
                   response, imgs, lines, current_section, clues>>

\* Lines 147-148: the fallback to the fetch utility; what it raises goes to
\* the outer `except Exception` (lines 205-208).
CurlFallback ==
    /\ pc = "feed_fallback"
    /\ NeedsFallback(payload_text)
    /\ \E env \in CurlEnvs :
          LET f == fetch_with_curl(rss_url, env)
          IN /\ trace' = [trace EXCEPT
                              !.fallback = @ \o <<[url |-> rss_url, env |-> env]>>]
             /\ IF f.exc # ""
                THEN /\ scraped_data' = ErrorResult(f.exc)
                     /\ pc' = "scrape_return"
                     /\ UNCHANGED payload_text
                ELSE /\ payload_text' = f.text
                     /\ pc' = "feed_validate"
                     /\ UNCHANGED scraped_data
    /\ UNCHANGED <<date_str, remote_image, requested, image_url, grid_matrix,
                   grid_numbers, html_payload, title, response, imgs, lines,
                   current_section, clues>>

SkipFallback ==
    /\ pc = "feed_fallback"
    /\ ~NeedsFallback(payload_text)
    /\ pc' = "feed_validate"
    /\ UNCHANGED <<date_str, remote_image, requested, image_url, grid_matrix,
                   grid_numbers, payload_text, trace, html_payload, title,
                   scraped_data, response, imgs, lines, current_section, clues>>

\* Lines 151-152.
RejectPayload ==
    /\ pc = "feed_validate"
    /\ InvalidPayload(payload_text)
    /\ scraped_data' = ErrorResult("Failed to retrieve valid XML data.")
    /\ pc' = "scrape_return"
    /\ UNCHANGED <<date_str, remote_image, requested, image_url, grid_matrix,
                   grid_numbers, payload_text, trace, html_payload, title,
                   response, imgs, lines, current_section, clues>>

\* Lines 155-175: parse the feed, take the first item, its title and body.
ParseFeed ==
    /\ pc = "feed_validate"
    /\ ~InvalidPayload(payload_text)
    /\ trace' = [trace EXCEPT !.parsed = @ \o <<payload_text>>]
    /\ \E doc \in FeedDocs :
          IF ~doc.item
          THEN /\ scraped_data' = ErrorResult("RSS Feed parsed but empty (no <item>).")
               /\ pc' = "scrape_return"
               /\ UNCHANGED <<title, html_payload>>
          ELSE IF doc.title = None
          THEN /\ scraped_data' = ErrorResult("AttributeError")
               /\ pc' = "scrape_return"
               /\ UNCHANGED <<title, html_payload>>
          ELSE /\ title' = doc.title
               /\ html_payload' = IF doc.content # None THEN doc.content
                                  ELSE IF doc.description # None THEN doc.description
                                  ELSE <<>>
               /\ pc' = IF html_payload' = <<>> THEN "link_fetch" ELSE "extract"
               /\ UNCHANGED scraped_data
    /\ UNCHANGED <<date_str, remote_image, requested, image_url, grid_matrix,
                   grid_numbers, payload_text, response, imgs, lines,
                   current_section, clues>>

\* Lines 179-182 failing: the item has no <link>, or requests.get raises.
FollowLinkFails ==
    /\ pc = "link_fetch"
    /\ \E e \in {"AttributeError", "ConnectionError"} :
          scraped_data' = ErrorResult(e)
    /\ pc' = "scrape_return"
    /\ UNCHANGED <<date_str, remote_image, requested, image_url, grid_matrix,
                   grid_numbers, payload_text, trace, html_payload, title,
                   response, imgs, lines, current_section, clues>>

\* Lines 179-187: fetch the post, decode it, retry with the utility; what
\* is raised on the way goes to the outer `except Exception`.
FollowLink ==
    /\ pc = "link_fetch"
    /\ \E res \in PageResponses, env1 \in PageCurlEnvs :
          LET d == decode_content(res, env1)
          IN IF d.exc # ""
             THEN /\ scraped_data' = ErrorResult(d.exc)
                  /\ pc' = "scrape_return"
                  /\ UNCHANGED html_payload
             ELSE IF ~NotMarkup(d.text)
             THEN /\ html_payload' = d.text
                  /\ pc' = "extract"
                  /\ UNCHANGED scraped_data
             ELSE \E env2 \in PageCurlEnvs :
                     LET f == fetch_with_curl(post_url, env2)
                     IN IF f.exc # ""
                        THEN /\ scraped_data' = ErrorResult(f.exc)
                             /\ pc' = "scrape_return"
                             /\ UNCHANGED html_payload
                        ELSE /\ html_payload' = f.text
                             /\ pc' = "extract"
                             /\ UNCHANGED scraped_data
    /\ UNCHANGED <<date_str, remote_image, requested, image_url, grid_matrix,
                   grid_numbers, payload_text, trace, title, response, imgs,
                   lines, current_section, clues>>

\* Line 77: an empty payload gives no image URL and no clues.
ExtractNothing ==
    /\ pc = "extract"
    /\ html_payload = <<>>
    /\ imgs' = <<>> /\ lines' = <<>>
    /\ image_url' = None
    /\ current_section' = NoSection
    /\ clues' = NoClues
    /\ trace' = [trace EXCEPT !.extracted = @ \o <<html_payload>>]
    /\ pc' = "clue_done"
    /\ UNCHANGED <<date_str, remote_image, requested, grid_matrix, grid_numbers,
                   payload_text, html_payload, title, scraped_data, response>>

\* Lines 79-109: parse the payload, scan its images (an exception goes to
\* the `except Exception` of lines 205-208), split its text into lines.
Extract ==
    /\ pc = "extract"
    /\ html_payload # <<>>
    /\ \E doc \in HtmlDocs :
          /\ imgs' = doc.imgs
          /\ image_url' = SelectImage(doc.imgs).image_url
          /\ IF SelectImage(doc.imgs).exc # ""
             THEN /\ scraped_data' = ErrorResult(SelectImage(doc.imgs).exc)
                  /\ lines' = <<>>
                  /\ pc' = "scrape_return"
             ELSE /\ lines' = doc.lines
                  /\ pc' = "clue_scan"
                  /\ UNCHANGED scraped_data
    /\ current_section' = NoSection
    /\ clues' = NoClues
    /\ trace' = [trace EXCEPT !.extracted = @ \o <<html_payload>>]
    /\ UNCHANGED <<date_str, remote_image, requested, grid_matrix, grid_numbers,
                   payload_text, html_payload, title, response>>

\* Lines 192-203: the result of a scrape that raised nothing.
ExtractReturn ==
    /\ pc = "clue_done"
    /\ scraped_data' = PuzzleResult(title, image_url, clues)
    /\ pc' = "scrape_return"
    /\ UNCHANGED <<date_str, remote_image, requested, image_url, grid_matrix,
                   grid_numbers, payload_text, trace, html_payload, title,
                   response, imgs, lines, current_section, clues>>

(***************************************************************************)
(* scraper.get_puzzle(date_str): imported by app.py, not defined in        *)
(* scraper.py.  Modelled from the specification: without a date it is the  *)
(* feed scrape above, with a date it fetches the page of that date; its    *)
(* result carries the grid dimensions, 21 x 21 for a Sunday.               *)
(***************************************************************************)
SundayIndex == 6
SundaySize == 21
WeekdaySize == 15

DateStrs ==
    { <<"2", "0", "2", "4", "-", "0", "6", "-", "0", "8">>,     \* a Saturday
      <<"2", "0", "2", "4", "-", "0", "6", "-", "0", "9">>,     \* a Sunday
      <<"2", "0", "2", "4", "-", "0", "6", "-", "1", "0">>,     \* a Monday
      <<"2", "0", "2", "3", "-", "1", "2", "-", "3", "1">>,     \* a Sunday
      <<"2", "0", "2", "4", "-", "0", "2", "-", "3", "0">> }    \* no date

DaysInMonth(y, m) ==
    IF m = 2 THEN (IF (y % 4 = 0 /\ y % 100 # 0) \/ y % 400 = 0 THEN 29 ELSE 28)
    ELSE IF m \in {4, 6, 9, 11} THEN 30 ELSE 31

\* datetime.strptime(date_str, "%Y-%m-%d"): the date, or ok = FALSE.
ParseDate(chars) ==
    IF /\ Len(chars) = 10
       /\ chars[5] = "-" /\ chars[8] = "-"
       /\ \A i \in {1, 2, 3, 4, 6, 7, 9, 10} : chars[i] \in Digits
    THEN LET y == DecimalValue(SubSeq(chars, 1, 4))
             m == DecimalValue(SubSeq(chars, 6, 7))
             d == DecimalValue(SubSeq(chars, 9, 10))
         IN [ok |-> y >= 1 /\ m \in 1..12 /\ d >= 1 /\ d <= DaysInMonth(y, m),
             y |-> y, m |-> m, d |-> d]
    ELSE [ok |-> FALSE, y |-> 0, m |-> 0, d |-> 0]

MonthOffset == <<0, 3, 2, 5, 0, 3, 5, 1, 4, 6, 2, 4>>

\* date.weekday(): Monday is 0 and Sunday is 6.
Weekday(date) ==
    LET y == IF date.m < 3 THEN date.y - 1 ELSE date.y
        fromSunday == (y + (y \div 4) - (y \div 100) + (y \div 400)
                       + MonthOffset[date.m] + date.d) % 7
    IN (fromSunday + 6) % 7

\* "sunday" in the lower-cased title
TitleLower(w) == IF w = "Sunday" THEN "sunday" ELSE IF w = "Monday" THEN "monday" ELSE w
IsSundayTitle(t) == \E i \in 1..Len(t) : TitleLower(t[i]) = "sunday"

SizeFor(isSunday) == IF isSunday THEN SundaySize ELSE WeekdaySize

\* The dimensions added to a successful scrape.
WithSize(result, isSunday) ==
    IF "error" \in result.keys THEN result
    ELSE [result EXCEPT !.keys = @ \cup {"rows", "cols"},
                        !.rows = SizeFor(isSunday), !.cols = SizeFor(isSunday)]

NoDate == None

\* get_puzzle(None): the feed scrape.
GetPuzzleLatest ==
    /\ pc = "get_puzzle"
    /\ date_str = NoDate
    /\ pc' = "feed_fetch"
    /\ UNCHANGED <<date_str, remote_image, requested, image_url, grid_matrix,
                   grid_numbers, payload_text, trace, html_payload, title,
                   scraped_data, response, imgs, lines, current_section, clues>>

\* The feed scrape returns: its result, with the size the title gives.
LatestReturn ==
    /\ pc = "scrape_return"
    /\ date_str = NoDate
    /\ scraped_data' = WithSize(scraped_data,
                                "error" \notin scraped_data.keys /\ IsSundayTitle(title))
    /\ pc' = "scraped"
    /\ UNCHANGED <<date_str, remote_image, requested, image_url, grid_matrix,
                   grid_numbers, payload_text, trace, html_payload, title,
                   response, imgs, lines, current_section, clues>>

\* get_puzzle(date_str) with a string that is no date: it raises.
GetPuzzleBadDate ==
    /\ pc = "get_puzzle"
    /\ date_str # NoDate
    /\ ~ParseDate(date_str).ok
    /\ pc' = "scrape_raised"
    /\ UNCHANGED <<date_str, remote_image, requested, image_url, grid_matrix,
                   grid_numbers, payload_text, trace, html_payload, title,
                   scraped_data, response, imgs, lines, current_section, clues>>

\* get_puzzle(date_str) with a date: the page of that date is fetched; a
\* fetch that yields nothing or no markup is an error result, else the page
\* goes to the extraction.
GetPuzzleDated ==
    /\ pc = "get_puzzle"
    /\ date_str # NoDate
    /\ ParseDate(date_str).ok
    /\ \E page \in PageTexts, t \in Titles :
          /\ html_payload' = page
          /\ title' = t
          /\ IF NotMarkup(page)
             THEN /\ scraped_data' = ErrorResult("Failed to fetch page.")
                  /\ pc' = "scraped"
             ELSE /\ pc' = "extract"
                  /\ UNCHANGED scraped_data
    /\ UNCHANGED <<date_str, remote_image, requested, image_url, grid_matrix,
                   grid_numbers, payload_text, trace, response, imgs, lines,
                   current_section, clues>>

\* The dated scrape returns: no image URL is an extraction failure, an
\* error result; else the result, with the size the weekday gives.
DatedReturn ==
    /\ pc = "scrape_return"
    /\ date_str # NoDate
    /\ scraped_data' =
          IF "error" \notin scraped_data.keys /\ scraped_data.image_url = None
          THEN ErrorResult("No grid image found.")
          ELSE WithSize(scraped_data, Weekday(ParseDate(date_str)) = SundayIndex)
    /\ pc' = "scraped"
    /\ UNCHANGED <<date_str, remote_image, requested, image_url, grid_matrix,
                   grid_numbers, payload_text, trace, html_payload, title,
                   response, imgs, lines, current_section, clues>>

(***************************************************************************)
(* app.py: get_crossword                                                   *)
(***************************************************************************)
StatusOk == 200
StatusError == 500
DefaultRows == 15
\* The call of line 31 passes three positional arguments; the function of
\* grid_extractor.py line 9 declares one parameter.
ArgsPassed == 3
ParamsAsCalled == ArgsPassed
ParamsDeclared == 1
\* Python binds the call only when the counts agree; TypeError otherwise.
CallBinds == ArgsPassed = ParamsDeclared

ErrorBodyAsMessage(msg) ==
    [keys |-> {"message"}, error |-> msg, title |-> None, grid |-> <<>>,
     numbers |-> <<>>, clues |-> NoClues, date |-> None]
ErrorBody(msg) ==
    [keys |-> {"error"}, error |-> msg, title |-> None, grid |-> <<>>,
     numbers |-> <<>>, clues |-> NoClues, date |-> None]
PuzzleBody(t, grid, nums, cl, date) ==
    [keys |-> {"title", "grid", "numbers", "clues", "date"}, error |-> "",
     title |-> t, grid |-> grid, numbers |-> nums, clues |-> cl, date |-> date]

\* scraped_data.get('rows', 15), scraped_data.get('cols', 15)
RowsOf(data) == IF "rows" \in data.keys THEN data.rows ELSE DefaultRows
ColsOf(data) == IF "cols" \in data.keys THEN data.cols ELSE DefaultRows

\* What the image URL of a request may serve.
ServedImages ==
    [kind : {"http_error", "undecodable"}, contours : {<<>>},
     contour_view : {"white"}, center_view : {"white"}]
    \cup [kind : {"image"}, contours : SeqsUpTo(ContourKinds, 1),
          contour_view : {"white", "checker"}, center_view : {"white", "checker"}]

Init ==
    /\ pc = "idle"
    /\ date_str = None /\ remote_image = None /\ requested = None
    /\ image_url = None /\ grid_matrix = None /\ grid_numbers = None
    /\ payload_text = None /\ trace = None /\ html_payload = None
    /\ title = None /\ scraped_data = None /\ response = None
    /\ imgs = None /\ lines = None /\ current_section = None /\ clues = None

\* Line 13: a request arrives, with or without a date.
Request ==
    /\ pc = "idle"
    /\ date_str' \in DateStrs \cup {NoDate}
    /\ trace' = NoTrace
    /\ payload_text' = <<>>
    /\ pc' = "get_puzzle"
    /\ UNCHANGED <<remote_image, requested, image_url, grid_matrix, grid_numbers,
                   html_payload, title, scraped_data, response, imgs, lines,
                   current_section, clues>>

\* Lines 20-22.
ScrapeError ==
    /\ pc = "scraped"
    /\ "error" \in scraped_data.keys
    /\ response' = [status |-> StatusError, body |-> ErrorBody(scraped_data.error)]
    /\ pc' = "responded"
    /\ UNCHANGED <<date_str, remote_image, requested, image_url, grid_matrix,
                   grid_numbers, payload_text, trace, html_payload, title,
                   scraped_data, imgs, lines, current_section, clues>>

\* Lines 49-52: what get_puzzle raised.
UnexpectedError ==
    /\ pc = "scrape_raised"
    /\ response' = [status |-> StatusError, body |-> ErrorBody("Internal Server Error")]
    /\ pc' = "responded"
    /\ UNCHANGED <<date_str, remote_image, requested, image_url, grid_matrix,
                   grid_numbers, payload_text, trace, html_payload, title,
                   scraped_data, imgs, lines, current_section, clues>>

\* Lines 24-47: the call of process_grid_image with (image_url, rows, cols),
\* its TypeError caught at line 32, else the numbering and the puzzle.
BuildPuzzle ==
    /\ pc = "scraped"
    /\ "error" \notin scraped_data.keys
    /\ requested' = <<RowsOf(scraped_data), ColsOf(scraped_data)>>
    /\ \E served \in ServedImages :
          /\ remote_image' = served
          /\ IF CallBinds
             THEN /\ grid_matrix' = process_grid_image(scraped_data.image_url, served)
                  /\ grid_numbers' = generate_numbering(grid_matrix')
                  /\ response' = [status |-> StatusOk,
                                  body |-> PuzzleBody(scraped_data.title, grid_matrix',
                                                      grid_numbers', scraped_data.clues,
                                                      date_str)]
             ELSE /\ response' = [status |-> StatusError,
                                  body |-> ErrorBody("Failed to process grid image.")]
                  /\ UNCHANGED <<grid_matrix, grid_numbers>>
    /\ pc' = "responded"
    /\ UNCHANGED <<date_str, image_url, payload_text, trace, html_payload, title,
                   scraped_data, imgs, lines, current_section, clues>>

Next ==
    \/ Request
    \/ GetPuzzleLatest \/ GetPuzzleBadDate \/ GetPuzzleDated
    \/ FetchFeedFails \/ FetchFeed \/ CurlFallback \/ SkipFallback
    \/ RejectPayload \/ ParseFeed \/ FollowLinkFails \/ FollowLink
    \/ ExtractNothing \/ Extract \/ ScanLine \/ ScanEnd \/ ExtractReturn
    \/ LatestReturn \/ DatedReturn
    \/ ScrapeError \/ UnexpectedError \/ BuildPuzzle

Spec == Init /\ [][Next]_vars

(***************************************************************************)
(* Properties of a request                                                 *)
(***************************************************************************)
\* The scrape returned a dict (get_puzzle did not raise).
ScrapeReturned == date_str = NoDate \/ ParseDate(date_str).ok
ScrapeSucceeded == ScrapeReturned /\ "error" \notin scraped_data.keys

AllPlayable(rows, cols) == [r \in 1..rows |-> [c \in 1..cols |-> 1]]

\* C3: a request dated on a Sunday yields a result whose grid is 21 x 21,
\* a request dated on any other weekday a grid that is 15 x 15.
C3_SundayGrid ==
    (pc = "responded" /\ date_str # NoDate /\ ScrapeSucceeded) =>
        LET n == IF Weekday(ParseDate(date_str)) = 6 THEN 21 ELSE 15
        IN /\ response.status = 200
           /\ HasShape(response.body.grid, n, n)

\* C4: every request ends with status 200 and a body holding title, grid,
\* numbers and clues, or with status 500 and a body holding an error field;
\* a scrape error and an exception of the scrape or of the image stage give
\* the 500 outcome.
C4_Outcome ==
    pc = "responded" =>
        /\ \/ /\ response.status = 200
              /\ {"title", "grid", "numbers", "clues"} \subseteq response.body.keys
              /\ "error" \notin response.body.keys
           \/ /\ response.status = 500
              /\ "error" \in response.body.keys
              /\ "grid" \notin response.body.keys
        /\ ~ScrapeReturned => response.status = 500
        /\ (ScrapeReturned /\ "error" \in scraped_data.keys) => response.status = 500

\* A request whose scrape raised, answered with the 500 outcome.
C4_Witness ==
    /\ pc = "responded"
    /\ ~ScrapeReturned
    /\ response.status = 500
    /\ response.body.error = "Internal Server Error"

\* The text is markup: stripped, it begins with "<".
ClaimMarkup(t) == StartsWithLt(t)

\* C5: when the primary fetch-and-decode of the feed fails or yields empty
\* or non-markup text, the fetch utility is invoked for the feed URL, and
\* its output, when markup, is the payload that is parsed; when the primary
\* decode yields markup the utility's output never replaces it.
C5_Fallback ==
    [][/\ pc = "feed_fallback" =>
            IF ClaimMarkup(payload_text)
            THEN /\ payload_text' = payload_text
                 /\ trace'.fallback = trace.fallback
            ELSE /\ Len(trace'.fallback) = Len(trace.fallback) + 1
                 /\ LET call == trace'.fallback[Len(trace'.fallback)]
                    IN /\ call.url = rss_url
                       /\ (call.env.which /\ call.env.run # Raises
                           /\ ClaimMarkup(call.env.run)) =>
                              (payload_text' = call.env.run /\ pc' = "feed_validate")
       /\ (pc = "feed_validate" /\ ClaimMarkup(payload_text)) =>
              (trace'.parsed = <<payload_text>> /\ payload_text' = payload_text)]_vars

\* The utility was called for the feed and its markup output was parsed.
C5_Witness ==
    /\ pc \in {"link_fetch", "extract"}
    /\ Len(trace.fallback) = 1
    /\ trace.fallback[1].url = rss_url
    /\ trace.fallback[1].env.which
    /\ trace.fallback[1].env.run = <<"ws", "<rss">>
    /\ trace.parsed = << <<"ws", "<rss">> >>

\* The fallback of the feed fetch ran and did not give markup.
FallbackFailed ==
    /\ trace.fallback # <<>>
    /\ \/ ~trace.fallback[1].env.which
       \/ trace.fallback[1].env.run = Raises
       \/ ~ClaimMarkup(trace.fallback[1].env.run)

\* C6: when the scrape succeeds and the image bytes cannot be decoded, the
\* request completes with the success shape, the scraped title and clues
\* and an all-playable grid of the expected dimensions.
C6_DecodeFailure ==
    (pc = "responded" /\ ScrapeSucceeded /\ scraped_data.image_url # None
        /\ remote_image.kind = "undecodable") =>
        /\ response.status = 200
        /\ response.body.title = scraped_data.title
        /\ response.body.clues = scraped_data.clues
        /\ response.body.grid = AllPlayable(requested[1], requested[2])

\* C8: when the primary fetch and the fetch utility both fail to give
\* markup, or the utility is unavailable, get_latest_puzzle returns an error
\* object, does not raise, and neither parses the feed nor extracts content.
C8_FetchFailure ==
    (pc \notin {"idle", "get_puzzle", "feed_fetch", "feed_fallback"}
        /\ date_str = NoDate /\ FallbackFailed) =>
        /\ pc \in {"feed_validate", "scrape_return", "scraped", "responded"}
        /\ trace.parsed = <<>>
        /\ trace.extracted = <<>>
        /\ pc # "feed_validate" => scraped_data.keys = {"error"}

\* The scrape returned an error after the utility gave text that is not
\* markup.
C8_Witness ==
    /\ pc = "scrape_return"
    /\ date_str = NoDate
    /\ trace.fallback # <<>>
    /\ trace.fallback[1].env.which
    /\ trace.fallback[1].env.run = <<"g">>
    /\ scraped_data.error = "Failed to retrieve valid XML data."
    /\ trace.parsed = <<>>

====
